---- MODULE Spec2Model ----
(***************************************************************************)
(* A model of the food recommendation backend:                             *)
(*   backend/app/rag/retriever.py     filter compilation, search, lookup   *)
(*   backend/app/mcp/server.py        tool dispatch, preference upsert     *)
(*   backend/app/llm/openai_client.py prompt assembly, buffered/streaming  *)
(*                                                                         *)
(* Python values are encoded as follows.  An optional value is a sequence  *)
(* of length 0 (None) or 1 (the value); a list is a sequence; a dict is a  *)
(* function from its keys; text is a string.                               *)
(***************************************************************************)
EXTENDS Integers, Sequences, FiniteSets, TLC

VARIABLES
    call,      \* the operation invoked and its inputs
    index,     \* how the vector index behaved during it (None: not reached yet)
    request,   \* what that operation handed to the vector index (None: nothing)
    ret,       \* what it returned (None until it returns, and when it raised)
    outcome,   \* "pending", "returned", or "raised" when an exception left it
    store,     \* the relational preference store: user_id -> record, committed rows
    hist,      \* the save_preferences invocations made so far, oldest first
    input,     \* a generation request: messages, context, and the service's stub
    b_sent,    \* generate_response: the messages handed to the service (None: not yet)
    b_text,    \* generate_response: the text returned (None: not yet)
    s_sent,    \* generate_streaming_response: the messages handed to the service
    s_chunks,  \* the chunks the service has still to deliver on the open stream
    s_emitted, \* the fragments yielded to the consumer so far, oldest first
    conn,      \* the streaming connection: "none", "open" or "released"
    gen,       \* where the streaming generator stands
    pc,        \* concurrent saves: where each invocation stands
    sess,      \* concurrent saves: each invocation's session (what it loaded and set)
    unique,    \* concurrent saves: whether the table enforces one row per user_id
    extra      \* concurrent saves: rows inserted beside an existing row of the user_id

rvars == <<call, index, request, ret, outcome>>
pvars == <<store, hist>>
lvars == <<input, b_sent, b_text, s_sent, s_chunks, s_emitted, conn, gen>>
cvars == <<pc, sess, unique, extra>>
vars == <<call, index, request, ret, outcome, store, hist,
          input, b_sent, b_text, s_sent, s_chunks, s_emitted, conn, gen,
          pc, sess, unique, extra>>

None == <<>>
Some(v) == <<v>>
EmptyDict == <<>>

(***************************************************************************)
(* Bounds of the model.                                                    *)
(***************************************************************************)
MaxAllergens == 2
MaxHits == 2

(***************************************************************************)
(* Input domains.                                                          *)
(***************************************************************************)
SeqsUpTo(S, n) == UNION {[1..k -> S] : k \in 0..n}

Queries == {"dosa", ""}
AllergenVals == {"peanut", "gluten"}
AllergyArgs == {None} \cup {Some(l) : l \in SeqsUpTo(AllergenVals, MaxAllergens)}
DietaryArgs == {None, Some(""), Some("vegan")}
CuisineArgs == {None, Some(<<"south_indian">>)}
SpiceArgs == {None, Some("mild")}
MealArgs == {None, Some("breakfast")}
NResultsDefault == 5

(***************************************************************************)
(* Python truthiness of an optional string / optional list.                *)
(***************************************************************************)
TruthyStr(o) == o # None /\ o[1] # ""
TruthyList(o) == o # None /\ o[1] # <<>>

(***************************************************************************)
(* The index's predicate language (retriever.py:37-53).                    *)
(***************************************************************************)
Contains(f, v) == [kind |-> "$contains", field |-> f, value |-> v]
Not(p) == [kind |-> "$not", arg |-> p]
Eq(f, v) == [kind |-> "eq", field |-> f, value |-> v]
And(ps) == [kind |-> "$and", args |-> ps]

\* a plausible slip: the negation is left out
AllergenFiltersNoNot(allergies) ==
    IF TruthyList(allergies)
    THEN [i \in 1..Len(allergies[1]) |-> Contains("allergens", allergies[1][i])]
    ELSE <<>>

\* retriever.py:35-37: one negated containment per entry of the allergies list
AllergenFilters(allergies) ==
    IF TruthyList(allergies)
    THEN [i \in 1..Len(allergies[1]) |-> Not(Contains("allergens", allergies[1][i]))]
    ELSE <<>>

\* retriever.py:33-46: the predicate list, in the order the code appends
WhereFilters(allergies, dietary_type, spice_level, meal_type) ==
    AllergenFilters(allergies)
    \o (IF TruthyStr(dietary_type) THEN <<Contains("tags", dietary_type[1])>> ELSE <<>>)
    \o (IF TruthyStr(spice_level) THEN <<Eq("spice_level", spice_level[1])>> ELSE <<>>)
    \o (IF TruthyStr(meal_type) THEN <<Eq("meal_type", meal_type[1])>> ELSE <<>>)

\* a plausible slip: every non-empty predicate list is wrapped in a conjunction
CombineAlwaysAnd(where_filters) ==
    IF where_filters = <<>> THEN None ELSE Some(And(where_filters))

\* retriever.py:48-53
Combine(where_filters) ==
    IF where_filters = <<>> THEN None
    ELSE IF Len(where_filters) = 1 THEN Some(where_filters[1])
    ELSE Some(And(where_filters))

\* the Filter Compiler: retriever.py:33-53
CompileWhere(allergies, dietary_type, spice_level, meal_type) ==
    Combine(WhereFilters(allergies, dietary_type, spice_level, meal_type))

(***************************************************************************)
(* The vector index, as search_foods and get_food_by_id see it.            *)
(* An index behaviour says where the index fails, if it does, and what it  *)
(* answers otherwise.                                                      *)
(*   "collection"  get_chroma_client / get_or_create_collection raises     *)
(*   "call"        collection.query / collection.get raises                *)
(*   "read"        the answer lacks a key the code reads (KeyError)        *)
(***************************************************************************)
FailPoints == {"none", "collection", "call", "read"}
DocIds == {"d1", "d2", "d3"}
DocOf(id) == "text of " \o id
MetaOf(id) == [region |-> "south", dish |-> id]
DistVals == {0, 1, 2}

Distinct(s) == \A i, j \in 1..Len(s) : i # j => s[i] # s[j]
HitLists == {h \in SeqsUpTo(DocIds, MaxHits) : Distinct(h)}

\* answers of collection.query for the single query text: per-rank parallel
\* arrays.  documents are always asked for (retriever.py:60); an answer without
\* them is kept as one degenerate case per hit list.
QueryAnswersFor(h) ==
    {[ids |-> h,
      documents |-> Some([i \in 1..Len(h) |-> DocOf(h[i])]),
      metadatas |-> IF hasMeta THEN Some([i \in 1..Len(h) |-> MetaOf(h[i])]) ELSE None,
      distances |-> d] :
        hasMeta \in BOOLEAN,
        d \in {None} \cup {Some(x) : x \in [1..Len(h) -> DistVals]}}
    \cup {[ids |-> h, documents |-> None, metadatas |-> None, distances |-> None]}

QueryAnswers == UNION {QueryAnswersFor(h) : h \in HitLists}

\* answers of collection.get for one id: flat arrays
GetAnswers ==
    {[documents |-> docs, metadatas |-> metas] :
        docs \in {None, Some(<<>>)} \cup {Some(<<DocOf(i)>>) : i \in DocIds},
        metas \in {None, Some(<<>>)} \cup {Some(<<MetaOf(i)>>) : i \in DocIds}}

\* a plausible slip: similarity taken to be the distance itself
ScoreAsDistance(distances, i) ==
    IF distances # None THEN distances[1][i] ELSE 0

\* retriever.py:71
Score(distances, i) ==
    IF distances # None THEN 1 - distances[1][i] ELSE 0

\* retriever.py:66
Metadata(metadatas, i) ==
    IF metadatas # None THEN metadatas[1][i] ELSE EmptyDict

\* retriever.py:63-74: one result per document, in rank order
Normalize(results) ==
    IF TruthyList(results.documents)
    THEN [i \in 1..Len(results.documents[1]) |->
            [id |-> results.ids[i],
             content |-> results.documents[1][i],
             metadata |-> Metadata(results.metadatas, i),
             score |-> Score(results.distances, i)]]
    ELSE <<>>

(***************************************************************************)
(* search_foods (retriever.py:22-77).  get_collection() at line 31 is      *)
(* outside the try block: its failure leaves the function.  The query and  *)
(* the reading of its answer are inside: their failure yields [].          *)
(***************************************************************************)
SearchOutcome(query, allergies, dietary_type, spice_level, meal_type, n_results, fail, answer) ==
    LET where == CompileWhere(allergies, dietary_type, spice_level, meal_type)
        req == [op |-> "query", query_texts |-> <<query>>, n_results |-> n_results,
                where |-> where]
    IN  IF fail = "collection"
        THEN [outcome |-> "raised", ret |-> None, request |-> None]
        ELSE IF fail \in {"call", "read"}
        THEN [outcome |-> "returned", ret |-> Some(<<>>), request |-> Some(req)]
        ELSE [outcome |-> "returned", ret |-> Some(Normalize(answer)), request |-> Some(req)]

\* the index behaviours a search can meet: a failure point, or an answer
SearchIndex ==
    {[fail |-> f, answer |-> None] : f \in FailPoints \ {"none"}}
    \cup {[fail |-> "none", answer |-> Some(a)] : a \in QueryAnswers}

SearchCalls ==
    {[op |-> "search_foods", query |-> query, allergies |-> allergies,
      dietary_type |-> dietary_type, cuisines |-> cuisines,
      spice_level |-> spice_level, meal_type |-> meal_type,
      n_results |-> NResultsDefault] :
        query \in Queries, allergies \in AllergyArgs, dietary_type \in DietaryArgs,
        cuisines \in CuisineArgs, spice_level \in SpiceArgs, meal_type \in MealArgs}

search_foods ==
    /\ call.op = "search_foods"
    /\ outcome = "pending"
    /\ \E behaviour \in SearchIndex :
        LET out == SearchOutcome(call.query, call.allergies, call.dietary_type,
                                 call.spice_level, call.meal_type, call.n_results,
                                 behaviour.fail,
                                 IF behaviour.answer = None THEN None
                                 ELSE behaviour.answer[1])
        IN  /\ index' = Some(behaviour)
            /\ request' = out.request
            /\ ret' = out.ret
            /\ outcome' = out.outcome
    /\ UNCHANGED <<call, store, hist, lvars, cvars>>

(***************************************************************************)
(* get_food_by_id (retriever.py:80-98): same shape, get_collection() at    *)
(* line 81 outside the try block.                                          *)
(***************************************************************************)
\* retriever.py:89-95; the optional result is None or the dish
Lookup(food_id, result) ==
    IF TruthyList(result.documents)
    THEN Some([id |-> food_id,
               content |-> result.documents[1][1],
               metadata |-> IF TruthyList(result.metadatas)
                            THEN result.metadatas[1][1] ELSE EmptyDict])
    ELSE None

GetOutcome(food_id, fail, answer) ==
    LET req == [op |-> "get", ids |-> <<food_id>>]
    IN  IF fail = "collection"
        THEN [outcome |-> "raised", ret |-> None, request |-> None]
        ELSE IF fail \in {"call", "read"}
        THEN [outcome |-> "returned", ret |-> Some(None), request |-> Some(req)]
        ELSE [outcome |-> "returned", ret |-> Some(Lookup(food_id, answer)),
              request |-> Some(req)]

FoodIds == DocIds \cup {"nope"}

GetIndex ==
    {[fail |-> f, answer |-> None] : f \in FailPoints \ {"none"}}
    \cup {[fail |-> "none", answer |-> Some(a)] : a \in GetAnswers}

GetCalls ==
    {[op |-> "get_food_by_id", food_id |-> food_id] : food_id \in FoodIds}

get_food_by_id ==
    /\ call.op = "get_food_by_id"
    /\ outcome = "pending"
    /\ \E behaviour \in GetIndex :
        LET out == GetOutcome(call.food_id, behaviour.fail,
                              IF behaviour.answer = None THEN None
                              ELSE behaviour.answer[1])
        IN  /\ index' = Some(behaviour)
            /\ request' = out.request
            /\ ret' = out.ret
            /\ outcome' = out.outcome
    /\ UNCHANGED <<call, store, hist, lvars, cvars>>

(***************************************************************************)
(* The preference store (server.py:79-89).  A row of UserPreferences holds *)
(* the four preference fields; a field never set is None.                  *)
(***************************************************************************)
PrefKeys == {"dietary_type", "spice_level", "allergies", "preferred_cuisines"}
UserIds == {"u1", "u2"}

\* server.py:82: UserPreferences(user_id=...), no preference field set
NewPrefs == [k \in PrefKeys |-> None]

\* a plausible slip: the record is rebuilt from the arguments alone
ApplyFieldsReplace(prefs, arguments) ==
    [k \in PrefKeys |-> IF k \in DOMAIN arguments THEN Some(arguments[k]) ELSE None]

\* server.py:85-87: only the keys present in the arguments are assigned
ApplyFields(prefs, arguments) ==
    [k \in PrefKeys |-> IF k \in DOMAIN arguments THEN Some(arguments[k]) ELSE prefs[k]]

\* the store with the row of user_id set to prefs, every other row as it was
PutRow(st, user_id, prefs) ==
    [u \in DOMAIN st \cup {user_id} |-> IF u = user_id THEN prefs ELSE st[u]]

\* server.py:79-90.  dbfail: the store rejects the transaction (the session
\* raises; nothing is committed).
SaveOutcome(arguments, st, dbfail) ==
    LET user_id == arguments["user_id"]
        prefs == IF user_id \in DOMAIN st THEN st[user_id] ELSE NewPrefs
    IN  IF dbfail
        THEN [outcome |-> "raised", store |-> st]
        ELSE [outcome |-> "returned",
              store |-> PutRow(st, user_id, ApplyFields(prefs, arguments))]

(***************************************************************************)
(* call_tool (server.py:61-92).                                            *)
(***************************************************************************)
TextContent(t) == [type |-> "text", text |-> t]

\* json.dumps(value, indent=2): the value rendered as text
JsonDumps(value) == ToString(value)

\* dict.get(key): the value, or None for a missing key
Get(arguments, key) ==
    IF key \in DOMAIN arguments THEN Some(arguments[key]) ELSE None

KnownTools == {"search_food", "get_food_details", "save_preferences"}
ToolNames == KnownTools \cup {"delete_everything", ""}

Opt(key, values) == {EmptyDict} \cup {key :> v : v \in values}

SearchFoodArgs ==
    {("query" :> q) @@ a @@ s @@ c @@ m :
        q \in {"dosa"},
        a \in Opt("allergies", SeqsUpTo(AllergenVals, MaxAllergens)),
        s \in Opt("spice_level", {"mild"}),
        c \in Opt("cuisine", {"south_indian"}),
        m \in Opt("meal_type", {"breakfast"})}

FoodDetailsArgs == {"food_id" :> f : f \in FoodIds}

SaveArgs ==
    {("user_id" :> u) @@ d @@ s @@ a @@ c :
        u \in UserIds,
        d \in Opt("dietary_type", {"vegan"}),
        s \in Opt("spice_level", {"mild", "spicy"}),
        a \in Opt("allergies", {<<"peanut">>}),
        c \in Opt("preferred_cuisines", {<<"south_indian">>})}

\* the argument mappings the declared schemas admit (server.py:20-56)
ArgsOf(name) ==
    CASE name = "search_food" -> SearchFoodArgs
      [] name = "get_food_details" -> FoodDetailsArgs
      [] name = "save_preferences" -> SaveArgs
      [] OTHER -> {EmptyDict, "query" :> "dosa"}

ToolCalls ==
    UNION {{[op |-> "call_tool", name |-> n, arguments |-> a] : a \in ArgsOf(n)} :
            n \in ToolNames}

\* server.py:63-70
SearchFoodTool(arguments, fail, answer) ==
    LET s == SearchOutcome(arguments["query"], Get(arguments, "allergies"), None,
                           Get(arguments, "spice_level"), Get(arguments, "meal_type"),
                           NResultsDefault, fail, answer)
    IN  IF s.outcome = "raised"
        THEN [outcome |-> "raised", ret |-> None, request |-> s.request]
        ELSE [outcome |-> "returned", request |-> s.request,
              ret |-> Some(<<TextContent(JsonDumps(s.ret[1]))>>)]

\* server.py:72-76
FoodDetailsTool(arguments, fail, answer) ==
    LET g == GetOutcome(arguments["food_id"], fail, answer)
    IN  IF g.outcome = "raised"
        THEN [outcome |-> "raised", ret |-> None, request |-> g.request]
        ELSE [outcome |-> "returned", request |-> g.request,
              ret |-> Some(<<TextContent(IF g.ret[1] # None
                                         THEN JsonDumps(g.ret[1][1])
                                         ELSE "Food not found")>>)]

\* server.py:78-90
SavePreferencesTool(arguments, st, dbfail) ==
    LET o == SaveOutcome(arguments, st, dbfail)
    IN  [outcome |-> o.outcome, store |-> o.store,
         ret |-> IF o.outcome = "returned"
                 THEN Some(<<TextContent("Preferences saved")>>) ELSE None]

\* server.py:92
UnknownTool(name) == Some(<<TextContent("Unknown tool: " \o name)>>)

Answer(behaviour) == IF behaviour.answer = None THEN None ELSE behaviour.answer[1]

call_tool ==
    /\ call.op = "call_tool"
    /\ outcome = "pending"
    /\ \/ /\ call.name = "search_food"
          /\ \E behaviour \in SearchIndex :
                LET out == SearchFoodTool(call.arguments, behaviour.fail, Answer(behaviour))
                IN  /\ index' = Some(behaviour)
                    /\ request' = out.request
                    /\ ret' = out.ret
                    /\ outcome' = out.outcome
          /\ UNCHANGED store
       \/ /\ call.name = "get_food_details"
          /\ \E behaviour \in GetIndex :
                LET out == FoodDetailsTool(call.arguments, behaviour.fail, Answer(behaviour))
                IN  /\ index' = Some(behaviour)
                    /\ request' = out.request
                    /\ ret' = out.ret
                    /\ outcome' = out.outcome
          /\ UNCHANGED store
       \/ /\ call.name = "save_preferences"
          /\ \E dbfail \in BOOLEAN :
                LET out == SavePreferencesTool(call.arguments, store, dbfail)
                IN  /\ store' = out.store
                    /\ ret' = out.ret
                    /\ outcome' = out.outcome
          /\ UNCHANGED <<index, request>>
       \/ /\ call.name \notin KnownTools
          /\ ret' = UnknownTool(call.name)
          /\ outcome' = "returned"
          /\ UNCHANGED <<index, request, store>>
    /\ UNCHANGED <<call, hist, lvars, cvars>>

(***************************************************************************)
(* Retrieval and dispatch, one call at a time: a call is drawn against a   *)
(* store content, then runs.                                               *)
(***************************************************************************)
\* the parts of the state an execution does not use, at rest
IdleR ==
    /\ call = [op |-> "none"]
    /\ index = None /\ request = None /\ ret = None /\ outcome = "pending"
IdleL ==
    /\ input = None /\ b_sent = None /\ b_text = None /\ s_sent = None
    /\ s_chunks = <<>> /\ s_emitted = <<>> /\ conn = "none" /\ gen = "start"
IdleC == pc = <<>> /\ sess = <<>> /\ unique = TRUE /\ extra = <<>>

StoredPrefs ==
    [dietary_type |-> Some("jain"), spice_level |-> Some("medium"),
     allergies |-> Some(<<"gluten">>), preferred_cuisines |-> None]

InitStores == {EmptyDict, "u1" :> StoredPrefs}

Init ==
    /\ \/ call \in SearchCalls \cup GetCalls /\ store = EmptyDict
       \/ call \in ToolCalls /\ store \in InitStores
    /\ index = None /\ request = None /\ ret = None /\ outcome = "pending"
    /\ hist = <<>>
    /\ IdleL /\ IdleC
Next == search_foods \/ get_food_by_id \/ call_tool
Spec == Init /\ [][Next]_vars

(***************************************************************************)
(* Successive save_preferences invocations against one store.              *)
(***************************************************************************)
MaxCalls == 2

save_preferences ==
    /\ Len(hist) < MaxCalls
    /\ \E arguments \in SaveArgs, dbfail \in BOOLEAN :
        LET out == SavePreferencesTool(arguments, store, dbfail)
        IN  /\ call' = [op |-> "call_tool", name |-> "save_preferences",
                        arguments |-> arguments]
            /\ store' = out.store
            /\ ret' = out.ret
            /\ outcome' = out.outcome
            /\ hist' = Append(hist, [arguments |-> arguments,
                                     returned |-> out.outcome = "returned"])
    /\ UNCHANGED <<index, request, lvars, cvars>>

InitPrefs ==
    /\ IdleR
    /\ store = EmptyDict
    /\ hist = <<>>
    /\ IdleL /\ IdleC
NextPrefs == save_preferences
SpecPrefs == InitPrefs /\ [][NextPrefs]_vars

(***************************************************************************)
(* Concurrent save_preferences invocations for one user_id                 *)
(* (server.py:78-90).  Each invocation runs its own session: it reads the  *)
(* row (line 80), prepares its changes in the session (lines 81-87) and    *)
(* writes them at commit (line 89).  Other invocations may run between     *)
(* the read and the commit: the code takes no lock.                        *)
(***************************************************************************)
Procs == {1, 2}
SharedUser == "u1"
SharedArgs == {a \in SaveArgs : a["user_id"] = SharedUser}

\* server.py:80-87: the row is looked up; a new one is prepared if there is
\* none; the supplied fields are set on the session's object
load(p) ==
    /\ pc[p] = "begin"
    /\ LET user_id == sess[p].arguments["user_id"]
           existing == user_id \in DOMAIN store
           prefs == IF existing THEN store[user_id] ELSE NewPrefs
       IN  sess' = [sess EXCEPT ![p].existing = existing,
                                ![p].prefs = ApplyFields(prefs, sess[p].arguments)]
    /\ pc' = [pc EXCEPT ![p] = "loaded"]
    /\ UNCHANGED <<store, unique, extra, hist, rvars, lvars>>

\* the UPDATE a session flushes for a row it loaded: the columns it assigned
UpdatedRow(row, prefs, arguments) ==
    [k \in PrefKeys |-> IF k \in DOMAIN arguments THEN prefs[k] ELSE row[k]]

\* server.py:89: the session's changes are written and committed.  An
\* INSERT for a user_id that has got a row since the read is refused when
\* the table enforces one row per user_id (the invocation raises, nothing
\* of it is saved), and adds a second row when it does not.
commit(p) ==
    /\ pc[p] = "loaded"
    /\ LET user_id == sess[p].arguments["user_id"]
       IN  IF sess[p].existing
           THEN /\ store' = PutRow(store, user_id,
                                   UpdatedRow(store[user_id], sess[p].prefs,
                                              sess[p].arguments))
                /\ pc' = [pc EXCEPT ![p] = "returned"]
                /\ UNCHANGED extra
           ELSE IF user_id \notin DOMAIN store
           THEN /\ store' = PutRow(store, user_id, sess[p].prefs)
                /\ pc' = [pc EXCEPT ![p] = "returned"]
                /\ UNCHANGED extra
           ELSE IF unique
           THEN /\ pc' = [pc EXCEPT ![p] = "raised"]
                /\ UNCHANGED <<store, extra>>
           ELSE /\ extra' = Append(extra, [user_id |-> user_id, prefs |-> sess[p].prefs])
                /\ pc' = [pc EXCEPT ![p] = "returned"]
                /\ UNCHANGED store
    /\ UNCHANGED <<sess, unique, hist, rvars, lvars>>

InitConc ==
    /\ pc = [p \in Procs |-> "begin"]
    /\ sess \in [Procs -> {[arguments |-> a, existing |-> FALSE, prefs |-> NewPrefs] :
                              a \in SharedArgs}]
    /\ unique \in BOOLEAN
    /\ extra = <<>>
    /\ store \in InitStores
    /\ hist = <<>>
    /\ IdleR /\ IdleL
NextConc == \E p \in Procs : load(p) \/ commit(p)
SpecConc == InitConc /\ [][NextConc]_vars

(***************************************************************************)
(* The response orchestrator (openai_client.py).                           *)
(***************************************************************************)
MaxMessages == 2
MaxChunks == 2

\* openai_client.py:10-31 (the text is abridged to its first sentence)
SYSTEM_PROMPT ==
    "You are a friendly and knowledgeable Indian food recommendation assistant."

Message(role, content) == [role |-> role, content |-> content]

\* openai_client.py:43-46
StreamingGrounding(context) ==
    Message("system",
            "Here are some relevant dishes from our database:\n\n" \o context
            \o "\n\nUse this to make personalized recommendations.")

\* openai_client.py:72-75
BufferedGrounding(context) ==
    Message("system", "Relevant dishes:\n\n" \o context)

\* a plausible slip: the conversation is added before the grounding message
StreamingMessagesConversationFirst(messages, context) ==
    <<Message("system", SYSTEM_PROMPT)>>
    \o messages
    \o (IF TruthyStr(context) THEN <<StreamingGrounding(context[1])>> ELSE <<>>)

\* openai_client.py:40-48
StreamingMessages(messages, context) ==
    <<Message("system", SYSTEM_PROMPT)>>
    \o (IF TruthyStr(context) THEN <<StreamingGrounding(context[1])>> ELSE <<>>)
    \o messages

\* openai_client.py:69-77
BufferedMessages(messages, context) ==
    <<Message("system", SYSTEM_PROMPT)>>
    \o (IF TruthyStr(context) THEN <<BufferedGrounding(context[1])>> ELSE <<>>)
    \o messages

(***************************************************************************)
(* The generation service, as a deterministic stub: the content deltas it  *)
(* produces for a message sequence.  A "fixed" stub produces the same      *)
(* deltas whatever it is sent; the "echo" stub produces the content of     *)
(* each message it is sent.  A delta's content is None, "" or text.        *)
(***************************************************************************)
DeltaVals == {None, Some(""), Some("Dosa"), Some(" is crisp")}
Stubs ==
    {[kind |-> "fixed", deltas |-> d] : d \in SeqsUpTo(DeltaVals, MaxChunks)}
    \cup {[kind |-> "echo", deltas |-> <<>>]}

Generate(stub, full_messages) ==
    IF stub.kind = "fixed" THEN stub.deltas
    ELSE [i \in 1..Len(full_messages) |-> Some(full_messages[i].content)]

RECURSIVE Concat(_)
Concat(texts) == IF texts = <<>> THEN "" ELSE Head(texts) \o Concat(Tail(texts))

Present(delta) == delta # None
Content(delta) == delta[1]

\* the one-shot completion of the same generation: message.content is None
\* when no delta carried content, their concatenation otherwise
Completion(deltas) ==
    LET present == SelectSeq(deltas, Present)
    IN  IF present = <<>> THEN None
        ELSE Some(Concat([i \in 1..Len(present) |-> Content(present[i])]))

UserMessages == {Message("user", "something light for breakfast"),
                 Message("assistant", "Try idli.")}
Conversations == SeqsUpTo(UserMessages, MaxMessages)
Contexts == {None, Some(""), Some("Masala Dosa: crisp crepe")}

\* generate_response (openai_client.py:63-86)
generate_response ==
    /\ input # None
    /\ b_sent = None
    /\ LET full_messages == BufferedMessages(input[1].messages, input[1].context)
           content == Completion(Generate(input[1].stub, full_messages))
       IN  /\ b_sent' = Some(full_messages)
           /\ b_text' = Some(IF TruthyStr(content) THEN content[1] ELSE "")
    /\ UNCHANGED <<input, s_sent, s_chunks, s_emitted, conn, gen, rvars, pvars, cvars>>

(***************************************************************************)
(* generate_streaming_response (openai_client.py:34-60), step by step:     *)
(*   gen = "start"      the generator exists, its body has not run         *)
(*         "reading"    inside "async for chunk in stream"                 *)
(*         "yielded"    suspended at the yield, the consumer in control    *)
(*         "done"       the stream is exhausted, the generator finished    *)
(*         "abandoned"  the consumer stopped consuming                     *)
(***************************************************************************)
\* openai_client.py:38-56: the request is issued and the stream opened
create_stream ==
    /\ input # None
    /\ gen = "start"
    /\ LET full_messages == StreamingMessages(input[1].messages, input[1].context)
       IN  /\ s_sent' = Some(full_messages)
           /\ s_chunks' = Generate(input[1].stub, full_messages)
    /\ conn' = "open"
    /\ gen' = "reading"
    /\ UNCHANGED <<input, b_sent, b_text, s_emitted, rvars, pvars, cvars>>

\* openai_client.py:58-60: the next chunk arrives; it is yielded when its
\* content is neither None nor empty
read_chunk ==
    /\ gen = "reading"
    /\ s_chunks # <<>>
    /\ s_chunks' = Tail(s_chunks)
    /\ IF TruthyStr(Head(s_chunks))
       THEN s_emitted' = Append(s_emitted, Head(s_chunks)[1]) /\ gen' = "yielded"
       ELSE UNCHANGED <<s_emitted, gen>>
    /\ UNCHANGED <<input, b_sent, b_text, s_sent, conn, rvars, pvars, cvars>>

\* the consumer asks for the next fragment
resume ==
    /\ gen = "yielded"
    /\ gen' = "reading"
    /\ UNCHANGED <<input, b_sent, b_text, s_sent, s_chunks, s_emitted, conn,
                   rvars, pvars, cvars>>

\* openai_client.py:58: the stream is exhausted; the service's stream closes
\* its connection when it ends, and the generator finishes
finish_stream ==
    /\ gen = "reading"
    /\ s_chunks = <<>>
    /\ conn' = "released"
    /\ gen' = "done"
    /\ UNCHANGED <<input, b_sent, b_text, s_sent, s_chunks, s_emitted,
                   rvars, pvars, cvars>>

\* the consumer stops consuming, before the first fragment or at a yield.
\* The body holds no "async with", "try/finally" or aclose() around the
\* stream (openai_client.py:50-60): nothing is done to the connection.
abandon ==
    /\ input # None
    /\ gen \in {"start", "yielded"}
    /\ gen' = "abandoned"
    /\ UNCHANGED <<input, b_sent, b_text, s_sent, s_chunks, s_emitted, conn,
                   rvars, pvars, cvars>>

\* the runtime may at some time collect the abandoned generator and its
\* stream, which closes the socket; nothing in the code makes it happen
collect ==
    /\ gen = "abandoned"
    /\ conn = "open"
    /\ conn' = "released"
    /\ UNCHANGED <<input, b_sent, b_text, s_sent, s_chunks, s_emitted, gen,
                   rvars, pvars, cvars>>

Inputs ==
    {[messages |-> m, context |-> c, stub |-> g] :
        m \in Conversations, c \in Contexts, g \in Stubs}

InitLLM ==
    /\ input \in {Some(i) : i \in Inputs}
    /\ b_sent = None /\ b_text = None /\ s_sent = None
    /\ s_chunks = <<>> /\ s_emitted = <<>> /\ conn = "none" /\ gen = "start"
    /\ IdleR /\ store = EmptyDict /\ hist = <<>> /\ IdleC
NextLLM ==
    \/ generate_response
    \/ create_stream \/ read_chunk \/ resume \/ finish_stream
    \/ abandon \/ collect
SpecLLM == InitLLM /\ [][NextLLM]_vars

\* the generator's own steps and the buffered call run to completion once
\* started; the consumer's steps and the runtime's collection are not owed
FairSpecLLM ==
    /\ SpecLLM
    /\ WF_vars(generate_response)
    /\ WF_vars(create_stream)
    /\ WF_vars(read_chunk)
    /\ WF_vars(finish_stream)

(***************************************************************************)
(* Properties of retrieval and dispatch (specification Spec).              *)
(***************************************************************************)
IsSearch ==
    \/ call.op = "search_foods"
    \/ call.op = "call_tool" /\ call.name = "search_food"

\* the constraint set of the search under way
ArgAllergies ==
    IF call.op = "search_foods" THEN call.allergies ELSE Get(call.arguments, "allergies")
ArgDietary == IF call.op = "search_foods" THEN call.dietary_type ELSE None
ArgSpice ==
    IF call.op = "search_foods" THEN call.spice_level ELSE Get(call.arguments, "spice_level")
ArgMeal ==
    IF call.op = "search_foods" THEN call.meal_type ELSE Get(call.arguments, "meal_type")

\* a field is active when it carries a constraint: a non-empty list or string
ActiveFields ==
    (IF TruthyList(ArgAllergies) THEN {"allergens"} ELSE {})
    \cup (IF TruthyStr(ArgDietary) THEN {"dietary_type"} ELSE {})
    \cup (IF TruthyStr(ArgSpice) THEN {"spice_level"} ELSE {})
    \cup (IF TruthyStr(ArgMeal) THEN {"meal_type"} ELSE {})

AllergenCount == IF TruthyList(ArgAllergies) THEN Len(ArgAllergies[1]) ELSE 0
PredicateCount == AllergenCount + Cardinality(ActiveFields \ {"allergens"})

\* the predicate of a single-valued active field
FieldPredicate(f) ==
    CASE f = "dietary_type" -> Contains("tags", ArgDietary[1])
      [] f = "spice_level" -> Eq("spice_level", ArgSpice[1])
      [] f = "meal_type" -> Eq("meal_type", ArgMeal[1])

AllergenPredicate(i) == Not(Contains("allergens", ArgAllergies[1][i]))

\* the filter the search handed to the index
Where == request[1].where
Compiled == IsSearch /\ request # None

\* C1: search_foods and get_food_by_id never let an index-level failure out:
\* wherever the index fails (obtaining the collection, the call, reading the
\* answer), search returns the empty sequence and the lookup returns None.
C1_NeverPropagates ==
    (call.op \in {"search_foods", "get_food_by_id"} /\ outcome # "pending") =>
        /\ outcome = "returned"
        /\ index[1].fail # "none" =>
              ret = IF call.op = "search_foods" THEN Some(<<>>) ELSE Some(None)

\* C2: call_tool never raises: whatever the tool name, the arguments, the
\* index and the store do, it yields text content; an unknown name N yields
\* "Unknown tool: N" and a lookup of a non-existent id yields "Food not found".
C2_NeverRaises ==
    (call.op = "call_tool" /\ outcome # "pending") =>
        /\ outcome = "returned"
        /\ ret # None /\ Len(ret[1]) = 1 /\ ret[1][1].type = "text"
        /\ call.name \notin KnownTools =>
              ret[1][1].text = "Unknown tool: " \o call.name
        /\ (/\ call.name = "get_food_details"
            /\ index[1].fail = "none"
            /\ index[1].answer[1].documents = Some(<<>>)) =>
              ret[1][1].text = "Food not found"

\* C7 as stated: with exactly one active field (allergens holding any
\* non-zero number of entries) the filter is that field's predicate, not a
\* conjunction; with no active field there is no filter.
C7_OneFieldUnwrapped ==
    Compiled =>
        /\ ActiveFields = {} => Where = None
        /\ Cardinality(ActiveFields) = 1 => Where # None /\ Where[1].kind # "$and"

\* C7 amended: with exactly one active field that yields one predicate (a
\* single-valued field, or allergens holding exactly one entry) the filter
\* is that predicate unwrapped; allergens alone with two or more entries
\* compile to a conjunction of one negated containment per entry; with no
\* active field there is no filter.
C7_OnePredicateUnwrapped ==
    Compiled =>
        /\ ActiveFields = {} => Where = None
        /\ \A f \in {"dietary_type", "spice_level", "meal_type"} :
              ActiveFields = {f} => Where = Some(FieldPredicate(f))
        /\ (ActiveFields = {"allergens"} /\ AllergenCount = 1) =>
              Where = Some(AllergenPredicate(1))
        /\ (ActiveFields = {"allergens"} /\ AllergenCount >= 2) =>
              /\ Where # None /\ Where[1].kind = "$and"
              /\ Where[1].args = [i \in 1..AllergenCount |-> AllergenPredicate(i)]

\* a search with the single constraint allergies = ["peanut"] was compiled
C7_Witness ==
    /\ Compiled
    /\ ActiveFields = {"allergens"}
    /\ ArgAllergies = Some(<<"peanut">>)
    /\ Where = Some(Not(Contains("allergens", "peanut")))

\* C8 as stated: with two or more active fields the filter is a conjunction
\* holding exactly one predicate per active field.
C8_OnePerField ==
    (Compiled /\ Cardinality(ActiveFields) >= 2) =>
        /\ Where # None /\ Where[1].kind = "$and"
        /\ Len(Where[1].args) = Cardinality(ActiveFields)

\* C8 amended: with two or more active fields the filter is a conjunction
\* holding one negated containment on allergens per entry of the allergen
\* list, in list order, and exactly one predicate per other active field
\* (containment on tags for dietary_type, exact match for spice_level and
\* meal_type), and nothing else.  A search_food tool call with
\* allergies = ["peanut"] and meal_type = "breakfast" compiles to the
\* conjunction of the two predicates.
C8_OnePerEntryAndField ==
    /\ (Compiled /\ Cardinality(ActiveFields) >= 2) =>
          /\ Where # None /\ Where[1].kind = "$and"
          /\ Len(Where[1].args) = PredicateCount
          /\ \A i \in 1..AllergenCount : Where[1].args[i] = AllergenPredicate(i)
          /\ \A f \in ActiveFields \ {"allergens"} :
                Cardinality({i \in 1..Len(Where[1].args) :
                                Where[1].args[i] = FieldPredicate(f)}) = 1
    /\ (/\ call.op = "call_tool" /\ call.name = "search_food"
        /\ request # None
        /\ Get(call.arguments, "allergies") = Some(<<"peanut">>)
        /\ Get(call.arguments, "meal_type") = Some("breakfast")
        /\ Get(call.arguments, "spice_level") = None) =>
          Where = Some(And(<<Not(Contains("allergens", "peanut")),
                             Eq("meal_type", "breakfast")>>))

\* the tool call of the scenario reached the index with a 2-predicate filter
C8_Witness ==
    /\ call.op = "call_tool" /\ call.name = "search_food"
    /\ request # None
    /\ Get(call.arguments, "allergies") = Some(<<"peanut">>)
    /\ Get(call.arguments, "meal_type") = Some("breakfast")
    /\ Get(call.arguments, "spice_level") = None
    /\ Where[1].kind = "$and" /\ Len(Where[1].args) = 2

\* C9: search_foods returns one result per returned document, in the
\* index's order, each with the id, document and metadata of its rank and
\* score = 1 - distance; without distances every score is 0 and the results
\* are still returned.  (Without metadatas the metadata is the empty dict.)
C9_Normalized ==
    (call.op = "search_foods" /\ outcome # "pending" /\ index[1].fail = "none") =>
        LET answer == index[1].answer[1]
            docs == IF answer.documents = None THEN <<>> ELSE answer.documents[1]
        IN  /\ outcome = "returned"
            /\ ret # None
            /\ Len(ret[1]) = Len(docs)
            /\ \A i \in 1..Len(docs) :
                  /\ ret[1][i].id = answer.ids[i]
                  /\ ret[1][i].content = docs[i]
                  /\ ret[1][i].metadata =
                        IF answer.metadatas = None THEN EmptyDict
                        ELSE answer.metadatas[1][i]
                  /\ ret[1][i].score =
                        IF answer.distances = None THEN 0
                        ELSE 1 - answer.distances[1][i]

\* two hits came back farthest first, and were returned in that order
C9_Witness ==
    /\ call.op = "search_foods" /\ outcome = "returned" /\ index[1].fail = "none"
    /\ index[1].answer[1].ids = <<"d2", "d1">>
    /\ index[1].answer[1].distances = Some(<<2, 0>>)
    /\ Len(ret[1]) = 2
    /\ ret[1][1].id = "d2" /\ ret[1][1].score = -1
    /\ ret[1][2].id = "d1" /\ ret[1][2].score = 1

(***************************************************************************)
(* Properties of concurrent saves (specification SpecConc).                *)
(***************************************************************************)
AllCompleted == \A p \in Procs : pc[p] \in {"returned", "raised"}

\* the invocations that supplied field k
Suppliers(k) == {p \in Procs : k \in DOMAIN sess[p].arguments}

\* C4: under any interleaving of concurrent save_preferences invocations for
\* one user_id, once all have completed a single record exists for the
\* user_id and every field some invocation supplied holds a value one of
\* them supplied (so the value of the only invocation that supplied it).
C4_NoLostUpdate ==
    AllCompleted =>
        /\ SharedUser \in DOMAIN store
        /\ extra = <<>>
        /\ \A k \in PrefKeys :
              Suppliers(k) # {} =>
                  store[SharedUser][k] \in {Some(sess[p].arguments[k]) : p \in Suppliers(k)}

(***************************************************************************)
(* Properties of the response orchestrator (specification SpecLLM).        *)
(***************************************************************************)
Persona == Message("system", SYSTEM_PROMPT)

\* a system message other than the persona that carries the context
IsGrounding(m, context) ==
    /\ m.role = "system"
    /\ m # Persona
    /\ m \in {StreamingGrounding(context), BufferedGrounding(context)}

\* the order claimed for a message sequence handed to the service
Ordered(sent) ==
    LET messages == input[1].messages
        context == input[1].context
    IN  /\ sent[1] = Persona
        /\ IF TruthyStr(context)
           THEN /\ Len(sent) = Len(messages) + 2
                /\ IsGrounding(sent[2], context[1])
                /\ SubSeq(sent, 3, Len(sent)) = messages
           ELSE /\ Len(sent) = Len(messages) + 1
                /\ SubSeq(sent, 2, Len(sent)) = messages

\* C5: in buffered and in streaming mode the service is handed the persona
\* message first, then exactly one grounding system message if and only if
\* a context is supplied (a non-empty text: None and "" add none), then the
\* caller's messages unchanged and in order; without context the caller's
\* messages start at position two.
C5_MessageOrder ==
    /\ b_sent # None => Ordered(b_sent[1])
    /\ s_sent # None => Ordered(s_sent[1])

\* both modes ran on a two-message conversation with a context
C5_Witness ==
    /\ b_sent # None /\ s_sent # None
    /\ TruthyStr(input[1].context)
    /\ Len(input[1].messages) = 2
    /\ Len(s_sent[1]) = 4 /\ Len(b_sent[1]) = 4
    /\ s_sent[1][3] = input[1].messages[1]

\* the deltas with content, in arrival order
Fragments(deltas) ==
    LET kept == SelectSeq(deltas, TruthyStr)
    IN  [i \in 1..Len(kept) |-> kept[i][1]]

\* C6: for one deterministic stub of the service, any conversation and any
\* context, the fragments of the streaming mode are the non-empty deltas in
\* arrival order and their concatenation is the buffered mode's text.
C6_StreamEqualsBuffered ==
    (gen = "done" /\ b_text # None) =>
        /\ s_emitted = Fragments(Generate(input[1].stub, s_sent[1]))
        /\ Concat(s_emitted) = b_text[1]

\* C10: whenever the consumer abandons a streaming response, the connection
\* opened for it is eventually released: it is never left held.
C10_AbandonReleases == (gen = "abandoned") ~> (conn # "open")

(***************************************************************************)
(* Properties of successive saves (specification SpecPrefs).               *)
(***************************************************************************)
\* the invocations for user u that returned, as positions of hist
Returned(u) ==
    {i \in 1..Len(hist) : hist[i].returned /\ hist[i].arguments["user_id"] = u}

Latest(S) == CHOOSE i \in S : \A j \in S : j <= i

\* the value field k of user u was given last, None if it never was
LastGiven(u, k) ==
    LET S == {i \in Returned(u) : k \in DOMAIN hist[i].arguments}
    IN  IF S = {} THEN None ELSE Some(hist[Latest(S)].arguments[k])

\* C3: after any sequence of save_preferences invocations, a user's record
\* exists exactly when some invocation for that user has returned, and each
\* preference field holds the value of the most recent such invocation that
\* supplied it (None if none did): fields not supplied keep their value and
\* other users' records are untouched.  An invocation the store rejected
\* raised and saved nothing.
C3_LastWriterPerField ==
    \A u \in UserIds :
        /\ u \in DOMAIN store <=> Returned(u) # {}
        /\ u \in DOMAIN store =>
              \A k \in PrefKeys : store[u][k] = LastGiven(u, k)

\* u1's record was created with allergies and spice_level, then saved again
\* with spice_level alone
C3_Witness ==
    /\ Len(hist) = 2
    /\ hist[1] = [arguments |-> [user_id |-> "u1", spice_level |-> "mild",
                                  allergies |-> <<"peanut">>],
                   returned |-> TRUE]
    /\ hist[2] = [arguments |-> [user_id |-> "u1", spice_level |-> "spicy"],
                   returned |-> TRUE]
    /\ store["u1"]["spice_level"] = Some("spicy")
    /\ store["u1"]["allergies"] = Some(<<"peanut">>)
    /\ store["u1"]["preferred_cuisines"] = None

====
